---------------------------- MODULE Spec2Model ----------------------------
(***************************************************************************)
(* HoopsHype TV backend (server.py): the cache shared by the two           *)
(* refresh_loop threads and the Flask request handlers, and the pure       *)
(* normalisation helpers of the box-score and headline pipelines.          *)
(***************************************************************************)
EXTENDS Integers, Sequences, FiniteSets, TLC

(***************************************************************************)
(* Bounds of the model.                                                    *)
(***************************************************************************)
\* refresh cycles a key may start (the loop itself is unbounded)
MaxCycles == 2
\* largest value of the wall clock time.time()
MaxTime == 2
\* concurrent Flask request threads
NReaders == 1

(***************************************************************************)
(* Threads.  __main__ starts one refresh_loop thread per key; every        *)
(* request is served by a thread of its own.                               *)
(***************************************************************************)
Keys == {"games", "headlines"}

Writers == {1, 2}

Readers == 3..(2 + NReaders)

Routes == {"games", "headlines", "health"}

\* a second thread started on the same key (a copy-paste slip in __main__)
KeyOfSameKey(t) == "games"

\* the key argument __main__ passes to each refresh_loop thread
KeyOf(t) == IF t = 1 THEN "games" ELSE "headlines"

\* cache_lock is unlocked
Unlocked == 0

\* None, as the value of the local variable data
None == -1

VARIABLES
    cache,       \* cache[key] = [data, updated]
    cache_lock,  \* the thread holding cache_lock, or Unlocked
    now,         \* time.time()
    pc,          \* each thread's position
    data,        \* refresh_loop's local variable data, per writer
    resp,        \* the values a request handler has read so far
    route,       \* the route a request thread is serving
    cycle,       \* per writer: ordinal of the key's cycle it is running (ghost)
    started,     \* per key: cycles started so far (ghost)
    finished,    \* per key: cycles that reached time.sleep (ghost)
    lastOK,      \* per key: ordinal of the last completed successful cycle (ghost)
    atStart,     \* per writer: cache[key] when its cycle began (ghost)
    outcome,     \* per writer: how the cycle's fetch ended (ghost)
    written,     \* <<key, data, updated>> of every completed write (ghost)
    fn,          \* the helper under test in the helper specifications
    arg,         \* its argument
    ret          \* its result

cvars == <<cache, cache_lock, now, pc, data, resp, route, cycle, started,
           finished, lastOK, atStart, outcome, written>>

fvars == <<fn, arg, ret>>

vars == <<cache, cache_lock, now, pc, data, resp, route, cycle, started,
          finished, lastOK, atStart, outcome, written, fn, arg, ret>>

(***************************************************************************)
(* refresh_loop(key, fetch_fn, interval_sec)                               *)
(***************************************************************************)
\* fetch_fn called inside the with block
WriterStepsLockAroundFetch ==
    <<"acquire", "fetch", "set_data", "set_updated", "release", "sleep">>

\* the statements of one pass of the while loop, in program order
WriterSteps ==
    <<"fetch", "acquire", "set_data", "set_updated", "release", "sleep">>

StepAfter(s) ==
    LET i == CHOOSE j \in 1..Len(WriterSteps) : WriterSteps[j] = s
    IN  WriterSteps[i + 1]

\* the None check dropped: the write follows whatever fetch_fn returned
AfterNoneNoCheck == StepAfter("fetch")

\* `if data is not None` is false: control falls to time.sleep
AfterNone == "sleep"

NoResp == [data |-> None, updated |-> None, now |-> None]

EmptyEntry == [data |-> 0, updated |-> 0]

CInit ==
    /\ cache = [k \in Keys |-> EmptyEntry]
    /\ cache_lock = Unlocked
    /\ now = 1
    /\ pc = [t \in Writers \cup Readers |->
                IF t \in Writers THEN WriterSteps[1] ELSE "idle"]
    /\ data = [t \in Writers |-> None]
    /\ resp = [r \in Readers |-> NoResp]
    /\ route = [r \in Readers |-> "none"]
    /\ cycle = [t \in Writers |-> 1]
    /\ started = [k \in Keys |-> Cardinality({t \in Writers : KeyOf(t) = k})]
    /\ finished = [k \in Keys |-> 0]
    /\ lastOK = [k \in Keys |-> 0]
    /\ atStart = [t \in Writers |-> EmptyEntry]
    /\ outcome = [t \in Writers |-> "pending"]
    /\ written = {}

\* time passes
Tick ==
    /\ now < MaxTime
    /\ now' = now + 1
    /\ UNCHANGED fvars
    /\ UNCHANGED <<cache, cache_lock, pc, data, resp, route, cycle, started,
                   finished, lastOK, atStart, outcome, written>>

\* fetch_fn() returns a list: the payload of this cycle
FetchOK(t) ==
    /\ pc[t] = "fetch"
    /\ data' = [data EXCEPT ![t] = cycle[t]]
    /\ outcome' = [outcome EXCEPT ![t] = "ok"]
    /\ pc' = [pc EXCEPT ![t] = StepAfter("fetch")]
    /\ UNCHANGED fvars
    /\ UNCHANGED <<cache, cache_lock, now, resp, route, cycle, started,
                   finished, lastOK, atStart, written>>

\* fetch_fn() caught its own exception and returned None
FetchNone(t) ==
    /\ pc[t] = "fetch"
    /\ data' = [data EXCEPT ![t] = None]
    /\ outcome' = [outcome EXCEPT ![t] = "none"]
    /\ pc' = [pc EXCEPT ![t] = AfterNone]
    /\ finished' = IF AfterNone = "sleep"
                   THEN [finished EXCEPT ![KeyOf(t)] = @ + 1] ELSE finished
    /\ UNCHANGED fvars
    /\ UNCHANGED <<cache, cache_lock, now, resp, route, cycle, started,
                   lastOK, atStart, written>>

\* fetch_fn() raised: the except clause logs and control reaches time.sleep
FetchRaise(t) ==
    /\ pc[t] = "fetch"
    /\ outcome' = [outcome EXCEPT ![t] = "raised"]
    /\ pc' = [pc EXCEPT ![t] = "sleep"]
    /\ finished' = [finished EXCEPT ![KeyOf(t)] = @ + 1]
    /\ UNCHANGED fvars
    /\ UNCHANGED <<cache, cache_lock, now, data, resp, route, cycle, started,
                   lastOK, atStart, written>>

\* the with statements do not exclude each other (a lock per thread, say)
LockFreeIgnored == TRUE

\* Lock.acquire returns only when no thread holds the lock
LockFree == cache_lock = Unlocked

\* with cache_lock: (blocks until the lock is free)
WAcquire(t) ==
    /\ pc[t] = "acquire"
    /\ LockFree
    /\ cache_lock' = t
    /\ pc' = [pc EXCEPT ![t] = StepAfter("acquire")]
    /\ UNCHANGED fvars
    /\ UNCHANGED <<cache, now, data, resp, route, cycle, started, finished,
                   lastOK, atStart, outcome, written>>

\* cache[key]["data"] = data
SetData(t) ==
    /\ pc[t] = "set_data"
    /\ cache' = [cache EXCEPT ![KeyOf(t)].data = data[t]]
    /\ pc' = [pc EXCEPT ![t] = StepAfter("set_data")]
    /\ UNCHANGED fvars
    /\ UNCHANGED <<cache_lock, now, data, resp, route, cycle, started,
                   finished, lastOK, atStart, outcome, written>>

\* cache[key]["updated"] = time.time()
SetUpdated(t) ==
    /\ pc[t] = "set_updated"
    /\ cache' = [cache EXCEPT ![KeyOf(t)].updated = now]
    /\ written' = written \cup {<<KeyOf(t), cache[KeyOf(t)].data, now>>}
    /\ pc' = [pc EXCEPT ![t] = StepAfter("set_updated")]
    /\ UNCHANGED fvars
    /\ UNCHANGED <<cache_lock, now, data, resp, route, cycle, started,
                   finished, lastOK, atStart, outcome>>

\* the with block ends: the lock is released and control reaches time.sleep
WRelease(t) ==
    /\ pc[t] = "release"
    /\ cache_lock' = IF cache_lock = t THEN Unlocked ELSE cache_lock
    /\ pc' = [pc EXCEPT ![t] = StepAfter("release")]
    /\ finished' = [finished EXCEPT ![KeyOf(t)] = @ + 1]
    /\ lastOK' = [lastOK EXCEPT ![KeyOf(t)] = cycle[t]]
    /\ UNCHANGED fvars
    /\ UNCHANGED <<cache, now, data, resp, route, cycle, started, atStart,
                   outcome, written>>

\* time.sleep(interval_sec) returns and the while loop starts its next pass
Wake(t) ==
    /\ pc[t] = "sleep"
    /\ started[KeyOf(t)] < MaxCycles
    /\ started' = [started EXCEPT ![KeyOf(t)] = @ + 1]
    /\ cycle' = [cycle EXCEPT ![t] = started[KeyOf(t)] + 1]
    /\ atStart' = [atStart EXCEPT ![t] = cache[KeyOf(t)]]
    /\ outcome' = [outcome EXCEPT ![t] = "pending"]
    /\ pc' = [pc EXCEPT ![t] = WriterSteps[1]]
    /\ UNCHANGED fvars
    /\ UNCHANGED <<cache, cache_lock, now, data, resp, route, finished,
                   lastOK, written>>

(***************************************************************************)
(* api_games, api_headlines, api_health                                    *)
(***************************************************************************)
\* a request arrives and Flask dispatches it to the route's handler
Request(r, rt) ==
    /\ pc[r] = "idle"
    /\ route' = [route EXCEPT ![r] = rt]
    /\ pc' = [pc EXCEPT ![r] = "acquire"]
    /\ UNCHANGED fvars
    /\ UNCHANGED <<cache, cache_lock, now, data, resp, cycle, started,
                   finished, lastOK, atStart, outcome, written>>

\* with cache_lock: (blocks until the lock is free)
RAcquire(r) ==
    /\ pc[r] = "acquire"
    /\ LockFree
    /\ cache_lock' = r
    /\ pc' = [pc EXCEPT ![r] = IF route[r] = "health" THEN "h_games"
                               ELSE "read_data"]
    /\ UNCHANGED fvars
    /\ UNCHANGED <<cache, now, data, resp, route, cycle, started, finished,
                   lastOK, atStart, outcome, written>>

\* cache[key]["data"]
ReadData(r) ==
    /\ pc[r] = "read_data"
    /\ resp' = [resp EXCEPT ![r].data = cache[route[r]].data]
    /\ pc' = [pc EXCEPT ![r] = "read_updated"]
    /\ UNCHANGED fvars
    /\ UNCHANGED <<cache, cache_lock, now, data, route, cycle, started,
                   finished, lastOK, atStart, outcome, written>>

\* cache[key]["updated"]
ReadUpdated(r) ==
    /\ pc[r] = "read_updated"
    /\ resp' = [resp EXCEPT ![r].updated = cache[route[r]].updated]
    /\ pc' = [pc EXCEPT ![r] = "respond"]
    /\ UNCHANGED fvars
    /\ UNCHANGED <<cache, cache_lock, now, data, route, cycle, started,
                   finished, lastOK, atStart, outcome, written>>

\* round(now - updated) if updated else None
Age(n, u) == IF u = 0 THEN None ELSE n - u

\* now = time.time(); games_age_sec
HealthGames(r) ==
    /\ pc[r] = "h_games"
    /\ resp' = [resp EXCEPT ![r].now = now,
                            ![r].data = Age(now, cache["games"].updated)]
    /\ pc' = [pc EXCEPT ![r] = "h_headlines"]
    /\ UNCHANGED fvars
    /\ UNCHANGED <<cache, cache_lock, now, data, route, cycle, started,
                   finished, lastOK, atStart, outcome, written>>

\* headlines_age_sec
HealthHeadlines(r) ==
    /\ pc[r] = "h_headlines"
    /\ resp' = [resp EXCEPT
                  ![r].updated = Age(resp[r].now, cache["headlines"].updated)]
    /\ pc' = [pc EXCEPT ![r] = "respond"]
    /\ UNCHANGED fvars
    /\ UNCHANGED <<cache, cache_lock, now, data, route, cycle, started,
                   finished, lastOK, atStart, outcome, written>>

\* return jsonify(...): the with block ends and the response is sent
Respond(r) ==
    /\ pc[r] = "respond"
    /\ cache_lock' = IF cache_lock = r THEN Unlocked ELSE cache_lock
    /\ resp' = [resp EXCEPT ![r] = NoResp]
    /\ route' = [route EXCEPT ![r] = "none"]
    /\ pc' = [pc EXCEPT ![r] = "idle"]
    /\ UNCHANGED fvars
    /\ UNCHANGED <<cache, now, data, cycle, started, finished, lastOK,
                   atStart, outcome, written>>

WriterStep(t) ==
    \/ FetchOK(t)
    \/ FetchNone(t)
    \/ FetchRaise(t)
    \/ WAcquire(t)
    \/ SetData(t)
    \/ SetUpdated(t)
    \/ WRelease(t)
    \/ Wake(t)

ReaderStep(r) ==
    \/ \E rt \in Routes : Request(r, rt)
    \/ RAcquire(r)
    \/ ReadData(r)
    \/ ReadUpdated(r)
    \/ HealthGames(r)
    \/ HealthHeadlines(r)
    \/ Respond(r)

CNext ==
    \/ Tick
    \/ \E t \in Writers : WriterStep(t)
    \/ \E r \in Readers : ReaderStep(r)

Init ==
    /\ CInit
    /\ fn = "none"
    /\ arg = <<>>
    /\ ret = <<>>

Next == CNext

Spec == Init /\ [][Next]_vars

(***************************************************************************)
(* Scheduling.  Every thread that can take a step eventually does, and a   *)
(* thread waiting for cache_lock gets it if the lock keeps becoming free.  *)
(* Nothing obliges fetch_fn to return (the adapter may stall or fail every *)
(* time) or a request to arrive.  No guard reads the clock, so it is left  *)
(* where it is.                                                            *)
(***************************************************************************)
WriterFair(t) ==
    /\ WF_vars(SetData(t) \/ SetUpdated(t) \/ WRelease(t))
    /\ SF_vars(WAcquire(t))

ReaderFair(r) ==
    /\ WF_vars(ReadData(r) \/ ReadUpdated(r) \/ HealthGames(r)
                  \/ HealthHeadlines(r) \/ Respond(r))
    /\ SF_vars(RAcquire(r))

LiveNext ==
    \/ \E t \in Writers : WriterStep(t)
    \/ \E r \in Readers : ReaderStep(r)

LiveSpec ==
    /\ Init
    /\ [][LiveNext]_vars
    /\ \A t \in Writers : WriterFair(t)
    /\ \A r \in Readers : ReaderFair(r)

(***************************************************************************)
(* Properties of the cache and the refresh threads.                        *)
(***************************************************************************)
WritersOf(k) == {t \in Writers : KeyOf(t) = k}

MidWrite(t) == pc[t] \in {"set_updated", "release"}

\* C1: the (data, updated) pair a games or headlines handler is about to
\* return is the initial pair ([], 0) or the pair one single completed
\* write of that key stored; never data of one write with updated of another.
C1_AtomicSnapshot ==
    \A r \in Readers :
        (pc[r] = "respond" /\ route[r] \in Keys) =>
            \/ resp[r].data = 0 /\ resp[r].updated = 0
            \/ <<route[r], resp[r].data, resp[r].updated>> \in written

\* a handler returns the pair of a key's second write, stored after the clock
\* moved on from the first write
C1_Witness ==
    \E r \in Readers :
        /\ pc[r] = "respond"
        /\ route[r] = "games"
        /\ resp[r].data = 2
        /\ resp[r].updated = 2
        /\ <<"games", 1, 1>> \in written

\* C2: once a cycle's fetch has failed (None or an exception) the thread is
\* at time.sleep without the lock, cache[key] is what it was when the cycle
\* began, a handler answering for that key returns that snapshot, and the
\* loop can start its next cycle.
C2_FailedCycleKeepsCache ==
    \A t \in Writers :
        outcome[t] \in {"none", "raised"} =>
            /\ pc[t] = "sleep"
            /\ cache_lock # t
            /\ cache[KeyOf(t)] = atStart[t]
            /\ \A r \in Readers :
                  (pc[r] = "respond" /\ route[r] = KeyOf(t)) =>
                      /\ resp[r].data = atStart[t].data
                      /\ resp[r].updated = atStart[t].updated
            /\ started[KeyOf(t)] < MaxCycles => ENABLED Wake(t)

\* a fetch returned None after an earlier cycle had written, and a handler
\* is returning the stale snapshot
C2_Witness ==
    \E r \in Readers :
        /\ outcome[1] = "none"
        /\ atStart[1].data = 1
        /\ pc[r] = "respond"
        /\ route[r] = "games"
        /\ resp[r].data = 1

\* C3: per key at most one cycle is in progress, cycle N+1 starts only when
\* cycle N has reached time.sleep, and outside a write in progress the
\* stored snapshot is the one the last completed successful cycle wrote.
C3_SequentialCycles ==
    \A k \in Keys :
        /\ Cardinality({t \in WritersOf(k) : pc[t] # "sleep"}) <= 1
        /\ started[k] - finished[k] \in {0, 1}
        /\ \A t \in WritersOf(k) :
              /\ pc[t] # "sleep" => finished[k] = cycle[t] - 1
              /\ pc[t] = "sleep" => finished[k] = cycle[t]
              /\ MidWrite(t) => cache[k].data = cycle[t]
        /\ (\A t \in WritersOf(k) : ~MidWrite(t)) =>
              /\ cache[k].data = lastOK[k]
              /\ lastOK[k] # 0 =>
                    <<k, cache[k].data, cache[k].updated>> \in written

\* two consecutive successful cycles of one key: the second superseded the first
C3_Witness ==
    /\ lastOK["games"] = 2
    /\ finished["games"] = 2
    /\ cache["games"].data = 2
    /\ <<"games", 1, 1>> \in written

\* C4: a writer inside fetch_fn, waiting for the lock or sleeping does not
\* hold cache_lock; it holds it only while assigning data and updated.
C4_LockOnlyForSwap ==
    \A t \in Writers :
        /\ pc[t] \in {"fetch", "acquire", "sleep"} => cache_lock # t
        /\ cache_lock = t => pc[t] \in {"set_data", "set_updated", "release"}

\* one writer holds the lock for its swap while the other is inside fetch_fn
C4_Witness ==
    /\ cache_lock = 1
    /\ pc[1] = "set_updated"
    /\ pc[2] = "fetch"

\* C5: whatever the other key's thread does (stalled inside fetch_fn for
\* ever, or failing every cycle), a fetch that succeeded is eventually
\* written to its slot and its cycle reaches time.sleep, and every request
\* waiting for the lock eventually gets it and returns.
C5_Isolation ==
    /\ \A t \in Writers :
          (pc[t] = "acquire") ~>
              (pc[t] = "sleep" /\ cache[KeyOf(t)].data = cycle[t])
    /\ \A r \in Readers : (pc[r] = "acquire") ~> (pc[r] = "idle")

\* the games thread is still inside the fetch of its first cycle while the
\* headlines thread has completed two cycles and a request is being answered
C5_Witness ==
    /\ pc[1] = "fetch"
    /\ cycle[1] = 1
    /\ lastOK["headlines"] = 2
    /\ \E r \in Readers : pc[r] = "respond"

(***************************************************************************)
(* Text.  A str is a sequence of one-character strings.  The tokens the    *)
(* helper specifications draw are over Alphabet, so int() and float() are  *)
(* modelled on that alphabet plus "+": an optional sign, digits and one    *)
(* optional ".", surrounded by optional blanks (no exponent, "_", "inf"    *)
(* or "nan", whose letters the alphabet does not hold).                    *)
(***************************************************************************)
\* longest token drawn letter by letter
MaxLen == 3

Alphabet == {"0", "2", "5", "P", "T", "M", "S", ":", ".", " ", "-", "x"}

DigitChars == <<"0", "1", "2", "3", "4", "5", "6", "7", "8", "9">>

IsDigit(c) == \E i \in 1..10 : DigitChars[i] = c

DigitVal(c) == (CHOOSE i \in 1..10 : DigitChars[i] = c) - 1

AllDigits(s) == \A i \in 1..Len(s) : IsDigit(s[i])

RECURSIVE DigitsVal(_)
\* the number a run of digits denotes (0 for the empty run)
DigitsVal(s) ==
    IF s = <<>> THEN 0
    ELSE 10 * DigitsVal(SubSeq(s, 1, Len(s) - 1)) + DigitVal(s[Len(s)])

StrsUpTo(n) == UNION {[1..k -> Alphabet] : k \in 0..n}

RECURSIVE ReplacePair(_, _, _, _)
\* s.replace(a + b, r) for one-character a and b
ReplacePair(s, a, b, r) ==
    IF s = <<>> THEN <<>>
    ELSE IF Len(s) >= 2 /\ s[1] = a /\ s[2] = b
         THEN r \o ReplacePair(SubSeq(s, 3, Len(s)), a, b, r)
         ELSE <<s[1]>> \o ReplacePair(Tail(s), a, b, r)

RECURSIVE ReplaceChar(_, _, _)
\* s.replace(c, r) for a one-character c
ReplaceChar(s, c, r) ==
    IF s = <<>> THEN <<>>
    ELSE (IF s[1] = c THEN r ELSE <<s[1]>>) \o ReplaceChar(Tail(s), c, r)

RECURSIVE LStrip(_)
LStrip(s) == IF s # <<>> /\ s[1] = " " THEN LStrip(Tail(s)) ELSE s

RECURSIVE RStrip(_)
RStrip(s) ==
    IF s # <<>> /\ s[Len(s)] = " " THEN RStrip(SubSeq(s, 1, Len(s) - 1)) ELSE s

\* s.strip()
Strip(s) == RStrip(LStrip(s))

\* c in s
Contains(s, c) == \E i \in 1..Len(s) : s[i] = c

RECURSIVE Split(_, _)
\* s.split(c): the list of the parts between the occurrences of c
Split(s, c) ==
    IF ~Contains(s, c) THEN <<s>>
    ELSE LET i == CHOOSE k \in 1..Len(s) :
                      s[k] = c /\ \A m \in 1..(k - 1) : s[m] # c
         IN  <<SubSeq(s, 1, i - 1)>> \o Split(SubSeq(s, i + 1, Len(s)), c)

Unsigned(t) == IF t # <<>> /\ t[1] \in {"+", "-"} THEN Tail(t) ELSE t

Sign(t) == IF t # <<>> /\ t[1] = "-" THEN -1 ELSE 1

\* int(s) of a str: [ok |-> FALSE] stands for ValueError
PyInt(s) ==
    LET t == Strip(s)
        d == Unsigned(t)
    IN  IF d # <<>> /\ AllDigits(d)
        THEN [ok |-> TRUE, v |-> Sign(t) * DigitsVal(d)]
        ELSE [ok |-> FALSE, v |-> 0]

\* int(float(s)) of a str: the integer part, truncated toward zero
PyIntFloat(s) ==
    LET t == Strip(s)
        d == Unsigned(t)
        parts == Split(d, ".")
        whole == parts[1]
        frac == IF Len(parts) > 1 THEN parts[2] ELSE <<>>
    IN  IF /\ Len(parts) <= 2
           /\ AllDigits(whole)
           /\ AllDigits(frac)
           /\ Len(whole) + Len(frac) > 0
        THEN [ok |-> TRUE, v |-> Sign(t) * DigitsVal(whole)]
        ELSE [ok |-> FALSE, v |-> 0]

\* int(x) of a number given in tenths: truncation toward zero
TruncTenths(n) == IF n >= 0 THEN n \div 10 ELSE -((-n) \div 10)

(***************************************************************************)
(* _parse_minutes(val).  val is a number (kind "num", n its value in       *)
(* tenths) or a str (kind "str", s its characters).                        *)
(***************************************************************************)
Num(n) == [kind |-> "num", n |-> n, s |-> <<>>]

Str(s) == [kind |-> "str", n |-> 0, s |-> s]

_parse_minutes(val) ==
    IF val.kind = "num" THEN TruncTenths(val.n)
    ELSE LET s == Strip(ReplaceChar(ReplaceChar(
                      ReplacePair(val.s, "P", "T", <<>>), "M", <<>>), "S", <<>>))
         IN  IF Contains(s, ":")
             THEN (IF PyInt(Split(s, ":")[1]).ok
                   THEN PyInt(Split(s, ":")[1]).v ELSE 0)
             ELSE (IF PyIntFloat(s).ok THEN PyIntFloat(s).v ELSE 0)

\* minute and second fields of the tokens built by form
MinuteFields == UNION {[1..k -> {"0", "2", "5"}] : k \in 1..2}

SecondFields == [1..2 -> {"0", "2", "5"}]

\* "PT<m>M<ss>S"
IsoTokens == {<<"P", "T">> \o m \o <<"M">> \o ss \o <<"S">> :
                 m \in MinuteFields, ss \in SecondFields}

\* "PT<m>M", the form the comment in _parse_players names
IsoMinuteTokens == {<<"P", "T">> \o m \o <<"M">> : m \in MinuteFields}

\* "MM:SS"
ColonTokens == {m \o <<":">> \o ss : m \in MinuteFields, ss \in SecondFields}

\* "PT<m>M<ss>.<ff>S", the live feed's form
IsoFractionTokens == {<<"P", "T">> \o m \o <<"M">> \o ss \o <<".", "0", "0", "S">> :
                         m \in MinuteFields, ss \in SecondFields}

Tokens ==
    StrsUpTo(MaxLen) \cup IsoTokens \cup IsoMinuteTokens \cup ColonTokens
        \cup IsoFractionTokens

\* numbers, in tenths: -2.5 .. 30.9
NumberTenths == (-25)..309

MinutesInit ==
    /\ CInit
    /\ fn = "_parse_minutes"
    /\ arg \in {Num(n) : n \in NumberTenths} \cup {Str(s) : s \in Tokens}
    /\ ret = <<>>

MinutesCall ==
    /\ fn = "_parse_minutes"
    /\ ret = <<>>
    /\ ret' = <<_parse_minutes(arg)>>
    /\ UNCHANGED <<fn, arg>>
    /\ UNCHANGED cvars

MinutesSpec == MinutesInit /\ [][MinutesCall]_vars

\* the forms the specification lists
IsIsoToken(s) == s \in IsoTokens

IsColonToken(s) == s \in ColonTokens

\* the digits before the first "M" or ":" of a token, after a leading "PT"
LeadingMinutes(s) ==
    LET t == IF Len(s) >= 2 /\ s[1] = "P" /\ s[2] = "T"
             THEN SubSeq(s, 3, Len(s)) ELSE s
        i == CHOOSE k \in 1..Len(t) :
                 t[k] \in {"M", ":"} /\ \A m \in 1..(k - 1) : IsDigit(t[m])
    IN  DigitsVal(SubSeq(t, 1, i - 1))

\* C6: _parse_minutes gives int(n) for a number n, the number for a numeric
\* string, m for "PT<m>M<ss>S", MM for "MM:SS", and 0 for the empty string
\* and for a token that holds no digit at all.
C6_ParseMinutes ==
    (fn = "_parse_minutes" /\ ret # <<>>) =>
        /\ arg.kind = "num" => ret[1] = TruncTenths(arg.n)
        /\ (arg.kind = "str" /\ arg.s # <<>> /\ AllDigits(arg.s)) =>
               ret[1] = DigitsVal(arg.s)
        /\ (arg.kind = "str" /\ IsIsoToken(arg.s)) =>
               ret[1] = LeadingMinutes(arg.s)
        /\ (arg.kind = "str" /\ IsColonToken(arg.s)) =>
               ret[1] = LeadingMinutes(arg.s)
        /\ (arg.kind = "str" /\ \A i \in 1..Len(arg.s) : ~IsDigit(arg.s[i])) =>
               ret[1] = 0

(***************************************************************************)
(* fetch_games: status and clock of one raw game record g.  An optional    *)
(* key of g is <<>> when absent and <<value>> when present.                *)
(***************************************************************************)
\* d.get(key, default)
Get(opt, default) == IF opt = <<>> THEN default ELSE opt[1]

RECURSIVE NatToStr(_)
NatToStr(n) ==
    IF n < 10 THEN <<DigitChars[n + 1]>>
    ELSE NatToStr(n \div 10) \o <<DigitChars[(n % 10) + 1]>>

\* f"{n}" of an int
IntToStr(n) == IF n < 0 THEN <<"-">> \o NatToStr(-n) ELSE NatToStr(n)

\* f"{n}": the seconds rendered without padding
Pad2None(n) == IntToStr(n)

\* f"{n:02d}": zero-padded to a width of two, the sign counted in the width
Pad2(n) == IF 0 <= n /\ n < 10 THEN <<"0">> \o IntToStr(n) ELSE IntToStr(n)

\* g.get("gameClock", "").replace("PT", "").replace("M", ":").replace("S", "").strip()
ClockStr(g) ==
    Strip(ReplaceChar(ReplaceChar(
        ReplacePair(Get(g.gameClock, <<>>), "P", "T", <<>>),
        "M", <<":">>), "S", <<>>))

\* the live branch: the try block, and clock_str itself when it raises
LiveClock(clock_str) ==
    IF clock_str = <<>> THEN <<"0", ":", "0", "0">>
    ELSE LET parts == Split(clock_str, ":")
             p1 == parts[1]
             p2 == IF Len(parts) > 1 THEN parts[2] ELSE <<>>
             raises == \/ p1 # <<>> /\ ~PyIntFloat(p1).ok
                       \/ p2 # <<>> /\ ~PyIntFloat(p2).ok
             mins == IF p1 # <<>> THEN PyIntFloat(p1).v ELSE 0
             secs == IF p2 # <<>> THEN PyIntFloat(p2).v ELSE 0
         IN  IF raises THEN clock_str
             ELSE IntToStr(mins) \o <<":">> \o Pad2(secs)

GameStatus(g) ==
    LET status_num == Get(g.gameStatus, 1)
    IN  IF status_num = 1 THEN "upcoming"
        ELSE IF status_num = 2 THEN "live"
        ELSE "final"

GameClock(g) ==
    LET status_num == Get(g.gameStatus, 1)
    IN  IF status_num = 1 THEN <<>>
        ELSE IF status_num = 2 THEN LiveClock(ClockStr(g))
        ELSE <<>>

\* raw status codes: absent, 1, 2, 3 and an unknown code
StatusCodes == {<<>>, <<1>>, <<2>>, <<3>>, <<0>>}

ClockInit ==
    /\ CInit
    /\ fn = "clock"
    /\ arg \in [gameStatus : StatusCodes,
                gameClock : {<<>>} \cup {<<t>> : t \in Tokens}]
    /\ ret = <<>>

ClockCall ==
    /\ fn = "clock"
    /\ ret = <<>>
    /\ ret' = <<[status |-> GameStatus(arg), clock |-> GameClock(arg)]>>
    /\ UNCHANGED <<fn, arg>>
    /\ UNCHANGED cvars

ClockSpec == ClockInit /\ [][ClockCall]_vars

\* "M:SS": digits, a colon, at least two digits
IsClockShape(c) ==
    \E i \in 2..(Len(c) - 2) :
        /\ c[i] = ":"
        /\ AllDigits(SubSeq(c, 1, i - 1))
        /\ AllDigits(SubSeq(c, i + 1, Len(c)))

\* the minutes and the seconds a clock of that shape shows
ShownMinutes(c) ==
    DigitsVal(SubSeq(c, 1, (CHOOSE i \in 1..Len(c) : c[i] = ":") - 1))

ShownSeconds(c) ==
    DigitsVal(SubSeq(c, (CHOOSE i \in 1..Len(c) : c[i] = ":") + 1, Len(c)))

\* the token with its markers replaced, and its minute and second fields
Stripped(g) == ClockStr(g)

Field(g, i) ==
    LET parts == Split(Stripped(g), ":")
    IN  IF Len(parts) >= i THEN parts[i] ELSE <<>>

IsNumber(f) == PyIntFloat(f).ok

FieldValue(f) == IF f = <<>> THEN 0 ELSE PyIntFloat(f).v

Live(g) == Get(g.gameStatus, 1) = 2

ZeroClock == <<"0", ":", "0", "0">>

Dash == "--"

EmptyTeam == [teamTricode |-> <<>>]

TeamDicts == {EmptyTeam, [teamTricode |-> <<"BOS">>], [teamTricode |-> <<"LAL">>]}

\* homeLeaders / awayLeaders: name, points, rebounds, assists, each optional
LeaderDicts ==
    [name : {<<>>, <<"Tatum">>, <<"James">>},
     points : {<<>>, <<30>>},
     rebounds : {<<>>, <<9>>},
     assists : {<<>>, <<0>>}]

\* gameLeaders: each side's block optional
GameLeaderDicts ==
    [homeLeaders : {<<>>} \cup {<<ld>> : ld \in LeaderDicts},
     awayLeaders : {<<>>} \cup {<<ld>> : ld \in LeaderDicts}]

NoGameLeaders == [homeLeaders |-> <<>>, awayLeaders |-> <<>>]

DefaultLeader == [p |-> Dash, v |-> 0]

DefaultLeaders == [pts |-> DefaultLeader, reb |-> DefaultLeader, ast |-> DefaultLeader]

\* side_leaders of one block: a category is set only if its key is in ld
SideLeaders(ld) ==
    [pts |-> IF ld.points # <<>>
             THEN <<[p |-> Get(ld.name, Dash), v |-> Get(ld.points, 0)]>> ELSE <<>>,
     reb |-> IF ld.rebounds # <<>>
             THEN <<[p |-> Get(ld.name, Dash), v |-> Get(ld.rebounds, 0)]>> ELSE <<>>,
     ast |-> IF ld.assists # <<>>
             THEN <<[p |-> Get(ld.name, Dash), v |-> Get(ld.assists, 0)]>> ELSE <<>>]

\* leaders.update(side_leaders)
Update(leaders, side_leaders) ==
    [c \in {"pts", "reb", "ast"} |->
        IF side_leaders[c] # <<>> THEN side_leaders[c][1] ELSE leaders[c]]

\* the side parse_team takes t for: "home" if t == home else "away"
SideOf(t, home) == IF t = home THEN "home" ELSE "away"

\* one pass of the loop over ("homeLeaders", "home"), ("awayLeaders", "away")
LeadersStep(leaders, block, our_key, t, home) ==
    IF block # <<>> /\ our_key = SideOf(t, home)
    THEN Update(leaders, SideLeaders(block[1]))
    ELSE leaders

\* parse_team(t, g): the abbreviation and the leaders of team t
parse_team(t, home, g) ==
    LET game_leaders == Get(g.gameLeaders, NoGameLeaders)
        l1 == LeadersStep(DefaultLeaders, game_leaders.homeLeaders, "home", t, home)
        l2 == LeadersStep(l1, game_leaders.awayLeaders, "away", t, home)
    IN  [abbr |-> Get(t.teamTricode, "???"),
         leaders |-> IF game_leaders # NoGameLeaders THEN l2 ELSE DefaultLeaders]

\* the away and home entries fetch_games appends for game g
GameTeams(g) ==
    LET home == Get(g.homeTeam, EmptyTeam)
        away == Get(g.awayTeam, EmptyTeam)
    IN  [away |-> parse_team(away, home, g), home |-> parse_team(home, home, g)]

LeadersInit ==
    /\ CInit
    /\ fn = "parse_team"
    /\ arg \in [homeTeam : {<<>>} \cup {<<t>> : t \in TeamDicts},
                awayTeam : {<<>>} \cup {<<t>> : t \in TeamDicts},
                gameLeaders : {<<>>} \cup {<<gl>> : gl \in GameLeaderDicts}]
    /\ ret = <<>>

LeadersCall ==
    /\ fn = "parse_team"
    /\ ret = <<>>
    /\ ret' = <<GameTeams(arg)>>
    /\ UNCHANGED <<fn, arg>>
    /\ UNCHANGED cvars

LeadersSpec == LeadersInit /\ [][LeadersCall]_vars

\* what a block provides for one category
Provided(ld, stat) ==
    IF stat = <<>> THEN DefaultLeader
    ELSE [p |-> IF ld.name = <<>> THEN Dash ELSE ld.name[1], v |-> stat[1]]

\* C8: with homeLeaders present and awayLeaders absent, whatever the team
\* records, the away team has the default leaders and the home team the
\* name and values of homeLeaders.
C8_LeadersBySide ==
    (/\ fn = "parse_team"
     /\ ret # <<>>
     /\ arg.gameLeaders # <<>>
     /\ arg.gameLeaders[1].homeLeaders # <<>>
     /\ arg.gameLeaders[1].awayLeaders = <<>>) =>
        LET ld == arg.gameLeaders[1].homeLeaders[1]
        IN  /\ ret[1].away.leaders = DefaultLeaders
            /\ ret[1].home.leaders.pts = Provided(ld, ld.points)
            /\ ret[1].home.leaders.reb = Provided(ld, ld.rebounds)
            /\ ret[1].home.leaders.ast = Provided(ld, ld.assists)

(***************************************************************************)
(* fetch_headlines: the selection loop over the extracted anchors.  An     *)
(* anchor is [id, len]: id stands for its text and href, len is the length *)
(* of a.get_text(strip=True).                                              *)
(***************************************************************************)
\* most anchors the page yields
MaxCands == 5

\* len(text) > 15
SkipLen == 15

\* len(headlines) < 3
NewCount == 3

TextLens == {0, SkipLen, SkipLen + 1}

Min(a, b) == IF a <= b THEN a ELSE b

Max(a, b) == IF a >= b THEN a ELSE b

\* articles[:n]
Slice(articles, n) ==
    IF n >= 0 THEN SubSeq(articles, 1, Min(n, Len(articles)))
    ELSE SubSeq(articles, 1, Max(Len(articles) + n, 0))

\* text and len(text) >= 15
SelectedFrom15(a) == a.len # 0 /\ a.len >= SkipLen

\* text and len(text) > 15
Selected(a) == a.len # 0 /\ a.len > SkipLen

RECURSIVE HeadlinesLoop(_, _)
\* the for loop: headlines is the list built so far
HeadlinesLoop(articles, headlines) ==
    IF articles = <<>> THEN headlines
    ELSE LET a == Head(articles)
         IN  HeadlinesLoop(Tail(articles),
                 IF Selected(a)
                 THEN Append(headlines,
                          [t |-> a.id,
                           b |-> IF Len(headlines) < NewCount THEN "new" ELSE "rumor",
                           url |-> a.id])
                 ELSE headlines)

\* fetch_headlines() on the anchors the selectors matched
fetch_headlines(articles, max_headlines) ==
    HeadlinesLoop(Slice(articles, max_headlines), <<>>)

\* the anchors of a page: the i-th has id i
Pages ==
    UNION {{[i \in 1..k |-> [id |-> i, len |-> lens[i]]] : lens \in [1..k -> TextLens]} :
              k \in 0..MaxCands}

HeadlinesInit ==
    /\ CInit
    /\ fn = "fetch_headlines"
    /\ arg \in [articles : Pages, max_headlines : (-1)..(MaxCands + 1)]
    /\ ret = <<>>

HeadlinesCall ==
    /\ fn = "fetch_headlines"
    /\ ret = <<>>
    /\ ret' = <<fetch_headlines(arg.articles, arg.max_headlines)>>
    /\ UNCHANGED <<fn, arg>>
    /\ UNCHANGED cvars

HeadlinesSpec == HeadlinesInit /\ [][HeadlinesCall]_vars

LongText(a) == a.len > SkipLen

\* the headlines are the anchors of sel, in order, the first 3 tagged "new"
IsTagged(headlines, sel) ==
    /\ Len(headlines) = Len(sel)
    /\ \A i \in 1..Len(sel) :
          /\ headlines[i].t = sel[i].id
          /\ headlines[i].url = sel[i].id
          /\ headlines[i].b = IF i <= 3 THEN "new" ELSE "rumor"

\* C9 as stated: the anchors longer than 15 characters, taken until
\* max_headlines of them are selected (shorter ones do not count), the
\* first 3 tagged "new" and the rest "rumor".
C9_LongOnesUpToMax ==
    (fn = "fetch_headlines" /\ ret # <<>> /\ arg.max_headlines >= 0) =>
        LET long == SelectSeq(arg.articles, LongText)
        IN  IsTagged(ret[1], SubSeq(long, 1, Min(arg.max_headlines, Len(long))))

\* C9 amended: the anchors longer than 15 characters among the first
\* max_headlines anchors (shorter ones are skipped but count toward the
\* maximum), the first 3 tagged "new" and the rest "rumor".
C9_LongOnesOfFirstMax ==
    (fn = "fetch_headlines" /\ ret # <<>> /\ arg.max_headlines >= 0) =>
        LET first == SubSeq(arg.articles, 1,
                            Min(arg.max_headlines, Len(arg.articles)))
        IN  IsTagged(ret[1], SelectSeq(first, LongText))

\* five anchors, the second too short, max_headlines 5: four headlines
C9_Witness ==
    /\ fn = "fetch_headlines"
    /\ ret # <<>>
    /\ arg.max_headlines = 5
    /\ Len(arg.articles) = 5
    /\ arg.articles[2].len = SkipLen
    /\ Len(ret[1]) = 4
    /\ ret[1][3].b = "new"
    /\ ret[1][4].b = "rumor"
    /\ ret[1][4].t = 5

(***************************************************************************)
(* _pct, _short_name, _format_pm and _parse_players.  A percentage is held *)
(* in tenths of a percent.  Of the counters _parse_players accumulates,    *)
(* or, dr, stl, blk, to and pf are handled exactly like reb and ast and    *)
(* are left out.                                                           *)
(***************************************************************************)
\* most player records of one team
MaxPlayers == 2

\* round(x, 1) of the exact quotient 1000 * made / attempted, ties to even
\* (what the float arithmetic of _pct yields for attempted < 80)
_pct(made, attempted) ==
    IF attempted = 0 THEN 0
    ELSE LET q == (1000 * made) \div attempted
             r == (1000 * made) % attempted
         IN  IF 2 * r > attempted THEN q + 1
             ELSE IF 2 * r < attempted THEN q
             ELSE IF q % 2 = 0 THEN q ELSE q + 1

\* f"{pct}%" of a float with one decimal
FmtPct(tenths) ==
    NatToStr(tenths \div 10) \o <<".">> \o NatToStr(tenths % 10) \o <<"%">>

\* f"{made}-{attempted}"
FmtShots(made, attempted) == IntToStr(made) \o <<"-">> \o IntToStr(attempted)

RECURSIVE Join(_)
\* " ".join(parts)
Join(parts) ==
    IF parts = <<>> THEN <<>>
    ELSE IF Len(parts) = 1 THEN parts[1]
    ELSE parts[1] \o <<" ">> \o Join(Tail(parts))

\* full.strip().split(): the words between runs of blanks
Words(full) == SelectSeq(Split(full, " "), LAMBDA w : w # <<>>)

_short_name(full) ==
    LET parts == Words(full)
    IN  IF Len(parts) >= 2
        THEN <<parts[1][1], ".", " ">> \o Join(Tail(parts))
        ELSE full

_format_pm(val) ==
    IF val > 0 THEN <<"+">> \o IntToStr(val)
    ELSE IF val < 0 THEN IntToStr(val)
    ELSE <<"0">>

\* p.get("name", p.get("firstName", "") + " " + p.get("familyName", ""))
FullName(p) ==
    Get(p.name, Get(p.firstName, <<>>) \o <<" ">> \o Get(p.familyName, <<>>))

CoachsDecision == <<"C", "o", "a", "c", "h", "'", "s", " ", "D", "e", "c", "i", "s", "i", "o", "n">>

DnpPrefix == <<"D", "N", "P", " ", "-", "-", " ">>

\* played == "0" forgotten: only the status decides
DnpStatusOnly(p) == Get(p.status, "ACTIVE") # "ACTIVE"

\* status != "ACTIVE" or played == "0"
Dnp(p) == Get(p.status, "ACTIVE") # "ACTIVE" \/ Get(p.played, "1") = "0"

NoStatistics ==
    [minutesCalculated |-> <<>>, minutes |-> <<>>, points |-> <<>>,
     fieldGoalsMade |-> <<>>, fieldGoalsAttempted |-> <<>>,
     threePointersMade |-> <<>>, threePointersAttempted |-> <<>>,
     freeThrowsMade |-> <<>>, freeThrowsAttempted |-> <<>>,
     reboundsTotal |-> <<>>, assists |-> <<>>, plusMinusPoints |-> <<>>]

\* the DNP entry of a player
DnpEntry(p) ==
    [n |-> _short_name(FullName(p)),
     r |-> DnpPrefix \o Get(p.notPlayingReason, CoachsDecision)]

\* player_obj of an active player
PlayerObj(p) ==
    LET stats == Get(p.statistics, NoStatistics)
        mins == Get(stats.minutesCalculated, Get(stats.minutes, Str(<<"0">>)))
    IN  [n |-> _short_name(FullName(p)),
         min |-> _parse_minutes(mins),
         pts |-> Get(stats.points, 0),
         fg |-> FmtShots(Get(stats.fieldGoalsMade, 0), Get(stats.fieldGoalsAttempted, 0)),
         tp |-> FmtShots(Get(stats.threePointersMade, 0), Get(stats.threePointersAttempted, 0)),
         ft |-> FmtShots(Get(stats.freeThrowsMade, 0), Get(stats.freeThrowsAttempted, 0)),
         reb |-> Get(stats.reboundsTotal, 0),
         ast |-> Get(stats.assists, 0),
         pm |-> _format_pm(Get(stats.plusMinusPoints, 0))]

ZeroTotals ==
    [min |-> 0, pts |-> 0, fg |-> <<0, 0>>, tp |-> <<0, 0>>, ft |-> <<0, 0>>,
     reb |-> 0, ast |-> 0]

\* the "Update totals" block for one active player
AddToTotals(totals, p) ==
    LET stats == Get(p.statistics, NoStatistics)
        obj == PlayerObj(p)
    IN  [min |-> totals.min + obj.min,
         pts |-> totals.pts + obj.pts,
         fg |-> <<totals.fg[1] + Get(stats.fieldGoalsMade, 0),
                  totals.fg[2] + Get(stats.fieldGoalsAttempted, 0)>>,
         tp |-> <<totals.tp[1] + Get(stats.threePointersMade, 0),
                  totals.tp[2] + Get(stats.threePointersAttempted, 0)>>,
         ft |-> <<totals.ft[1] + Get(stats.freeThrowsMade, 0),
                  totals.ft[2] + Get(stats.freeThrowsAttempted, 0)>>,
         reb |-> totals.reb + obj.reb,
         ast |-> totals.ast + obj.ast]

RECURSIVE PlayersLoop(_, _)
\* the for loop over players_data; acc holds starters, bench, dnp and totals
PlayersLoop(players_data, acc) ==
    IF players_data = <<>> THEN acc
    ELSE LET p == Head(players_data)
         IN  PlayersLoop(Tail(players_data),
                 IF Dnp(p)
                 THEN [acc EXCEPT !.dnp = Append(@, DnpEntry(p))]
                 ELSE IF Get(p.starter, "0") = "1"
                 THEN [acc EXCEPT !.totals = AddToTotals(@, p),
                                  !.starters = Append(@, PlayerObj(p))]
                 ELSE [acc EXCEPT !.totals = AddToTotals(@, p),
                                  !.bench = Append(@, PlayerObj(p))])

_parse_players(players_data) ==
    LET acc == PlayersLoop(players_data,
                   [starters |-> <<>>, bench |-> <<>>, dnp |-> <<>>,
                    totals |-> ZeroTotals])
        totals == acc.totals
    IN  [starters |-> acc.starters,
         bench |-> acc.bench,
         dnp |-> acc.dnp,
         totals |-> [min |-> totals.min,
                     pts |-> totals.pts,
                     fg |-> FmtShots(totals.fg[1], totals.fg[2]),
                     tp |-> FmtShots(totals.tp[1], totals.tp[2]),
                     ft |-> FmtShots(totals.ft[1], totals.ft[2]),
                     reb |-> totals.reb,
                     ast |-> totals.ast,
                     pm |-> <<>>],
         pcts |-> [fg |-> FmtPct(_pct(totals.fg[1], totals.fg[2])),
                   tp |-> FmtPct(_pct(totals.tp[1], totals.tp[2])),
                   ft |-> FmtPct(_pct(totals.ft[1], totals.ft[2]))]]

\* the statistics dicts drawn: absent, a full line as the live feed gives it,
\* and a partial line with "MM:SS" minutes
FullLine ==
    [minutesCalculated |-> <<Str(<<"P", "T", "2", "5", "M">>)>>,
     minutes |-> <<Str(<<"P", "T", "2", "5", "M", "0", "1", ".", "0", "0", "S">>)>>,
     points |-> <<7>>,
     fieldGoalsMade |-> <<3>>, fieldGoalsAttempted |-> <<4>>,
     threePointersMade |-> <<1>>, threePointersAttempted |-> <<2>>,
     freeThrowsMade |-> <<0>>, freeThrowsAttempted |-> <<0>>,
     reboundsTotal |-> <<9>>, assists |-> <<4>>, plusMinusPoints |-> <<5>>]

PartialLine ==
    [minutesCalculated |-> <<>>,
     minutes |-> <<Str(<<"1", "2", ":", "3", "0">>)>>,
     points |-> <<2>>,
     fieldGoalsMade |-> <<1>>, fieldGoalsAttempted |-> <<3>>,
     threePointersMade |-> <<0>>, threePointersAttempted |-> <<1>>,
     freeThrowsMade |-> <<>>, freeThrowsAttempted |-> <<>>,
     reboundsTotal |-> <<>>, assists |-> <<1>>, plusMinusPoints |-> <<-3>>]

\* who the i-th record is: a "name", a first and family name, a single token
Identity(i) ==
    IF i = 1
    THEN [name |-> <<<<"J", "a", "y", "s", "o", "n", " ", "T", "a", "t", "u", "m">>>>, firstName |-> <<>>, familyName |-> <<>>]
    ELSE IF i = 2
    THEN [name |-> <<>>, firstName |-> <<<<"L", "u", "c">>>>, familyName |-> <<<<"M", "b", "a", "h", " ", "a", " ", "M", "o", "u", "t", "e">>>>]
    ELSE [name |-> <<<<"N", "e", "n", "e">> \o NatToStr(i)>>, firstName |-> <<>>, familyName |-> <<>>]

\* the optional keys drawn for each record
PlayerKeys ==
    [status : {<<>>, <<"ACTIVE">>, <<"INACTIVE">>},
     played : {<<>>, <<"0">>},
     starter : {<<>>, <<"1">>, <<"0">>},
     statistics : {<<>>, <<FullLine>>, <<PartialLine>>}]

\* the i-th record of players_data with the keys k
PlayerRecord(i, k) ==
    [name |-> Identity(i).name,
     firstName |-> Identity(i).firstName,
     familyName |-> Identity(i).familyName,
     status |-> k.status, played |-> k.played, starter |-> k.starter,
     notPlayingReason |-> <<>>, statistics |-> k.statistics]

PlayersInit ==
    /\ CInit
    /\ fn = "_parse_players"
    /\ \E n \in 0..MaxPlayers : \E keys \in [1..n -> PlayerKeys] :
          arg = [i \in 1..n |-> PlayerRecord(i, keys[i])]
    /\ ret = <<>>

PlayersCall ==
    /\ fn = "_parse_players"
    /\ ret = <<>>
    /\ ret' = <<_parse_players(arg)>>
    /\ UNCHANGED <<fn, arg>>
    /\ UNCHANGED cvars

PlayersSpec == PlayersInit /\ [][PlayersCall]_vars

\* the section a record belongs to, by its status, played and starter flags
ClassOf(p) ==
    IF \/ p.status # <<>> /\ p.status[1] # "ACTIVE"
       \/ p.played # <<>> /\ p.played[1] = "0"
    THEN "dnp"
    ELSE IF p.starter = <<"1">> THEN "starters" ELSE "bench"

\* the positions of the records of one section, in order
Positions(players, c) ==
    SelectSeq([i \in 1..Len(players) |-> i], LAMBDA i : ClassOf(players[i]) = c)

RECURSIVE Sum(_)
\* the sum of a list of numbers
Sum(ns) == IF ns = <<>> THEN 0 ELSE Head(ns) + Sum(Tail(ns))

\* the sum of Val(line) over a list of lines
SumOver(lines, Val(_)) == Sum([i \in 1..Len(lines) |-> Val(lines[i])])

\* made and attempted of a "made-attempted" string
MadeOf(shots) == DigitsVal(Split(shots, "-")[1])

AttemptedOf(shots) == DigitsVal(Split(shots, "-")[2])

\* C10: every record is in exactly one of starters, bench and dnp (the one
\* its flags name, in input order); totals.min and totals.pts are the sums
\* over the starters' and bench's lines, totals.fg/tp/ft are "sum of made-sum
\* of attempted" over those lines, and each pct is _pct of those two sums.
C10_Totals ==
    (fn = "_parse_players" /\ ret # <<>>) =>
        LET out == ret[1]
            lines == out.starters \o out.bench
            Section(c) == IF c = "starters" THEN out.starters
                          ELSE IF c = "bench" THEN out.bench ELSE out.dnp
        IN  /\ \A c \in {"starters", "bench", "dnp"} :
                  /\ Len(Section(c)) = Len(Positions(arg, c))
                  /\ \A j \in 1..Len(Positions(arg, c)) :
                        Section(c)[j].n = _short_name(FullName(arg[Positions(arg, c)[j]]))
            /\ out.totals.min = SumOver(lines, LAMBDA l : l.min)
            /\ out.totals.pts = SumOver(lines, LAMBDA l : l.pts)
            /\ out.totals.fg = FmtShots(SumOver(lines, LAMBDA l : MadeOf(l.fg)),
                                        SumOver(lines, LAMBDA l : AttemptedOf(l.fg)))
            /\ out.totals.tp = FmtShots(SumOver(lines, LAMBDA l : MadeOf(l.tp)),
                                        SumOver(lines, LAMBDA l : AttemptedOf(l.tp)))
            /\ out.totals.ft = FmtShots(SumOver(lines, LAMBDA l : MadeOf(l.ft)),
                                        SumOver(lines, LAMBDA l : AttemptedOf(l.ft)))
            /\ out.pcts.fg = FmtPct(_pct(SumOver(lines, LAMBDA l : MadeOf(l.fg)),
                                         SumOver(lines, LAMBDA l : AttemptedOf(l.fg))))
            /\ out.pcts.tp = FmtPct(_pct(SumOver(lines, LAMBDA l : MadeOf(l.tp)),
                                         SumOver(lines, LAMBDA l : AttemptedOf(l.tp))))
            /\ out.pcts.ft = FmtPct(_pct(SumOver(lines, LAMBDA l : MadeOf(l.ft)),
                                         SumOver(lines, LAMBDA l : AttemptedOf(l.ft))))

\* a starter who went 3-4 and a bench player who went 1-3: totals 4-7 and
\* 57.1%, which is not the mean of 75.0% and 33.3%
C10_Witness ==
    /\ fn = "_parse_players"
    /\ ret # <<>>
    /\ Len(ret[1].starters) = 1
    /\ Len(ret[1].bench) = 1
    /\ ret[1].starters[1].fg = <<"3", "-", "4">>
    /\ ret[1].bench[1].fg = <<"1", "-", "3">>
    /\ ret[1].totals.fg = <<"4", "-", "7">>
    /\ ret[1].totals.min = 37
    /\ ret[1].totals.pts = 9
    /\ ret[1].pcts.fg = <<"5", "7", ".", "1", "%">>

=============================================================================
